---- MODULE Spec2Model ----
(***************************************************************************)
(* Model of package logger (src/logger.go): Logger instances holding the   *)
(* active *slog.Logger, the constructors, the rotation watcher goroutine,  *)
(* the package singleton, slog's process-wide default logger, and callers  *)
(* emitting records.                                                       *)
(*                                                                         *)
(* Time is abstracted to the calendar date: `now` is the date time.Now()   *)
(* falls on, Day(t) is time.Time.Day() (day of month) and DateOnly(t) is   *)
(* the YYYY-MM-DD text, which is distinct for distinct dates.              *)
(*                                                                         *)
(* A *slog.Logger built by slog.New(handler) is a sink record; its id      *)
(* <<i, n>> says it is the n-th logger built on behalf of instance i.      *)
(***************************************************************************)
EXTENDS Integers, Sequences, FiniteSets, TLC

\* ---------------------------------------------------------------- bounds
MaxInst  == 2    \* Logger instances built in one run (init's included)
MaxDate  == 1    \* the clock runs over the dates 0..MaxDate
MonthLen == 3    \* days in a month: Day() repeats every MonthLen dates
MaxRec   == 2    \* records emitted in one run
MaxLiveDate == 2 \* the clock of WatcherSpec runs over the dates 0..MaxLiveDate

\* ------------------------------------------------------- program constants
ModProd == "prod"
ModDev  == "dev"
TypeService == "service"
TypeRequest == "request"
DefaultMod  == ModDev
DefaultType == TypeService
DefaultServicePath == "./logs/service_logs/"
DefaultRequestPath == "./logs/request_logs/"

\* ------------------------------------------------------------ input sets
ModInputs  == {"", ModProd, ModDev, "stage"}
TypeInputs == {"", TypeRequest}
PathInputs == {"", DefaultServicePath}

Insts == 1..MaxInst
Dates == 0..MaxDate

VARIABLES
    now,          \* the date time.Now() returns
    crashed,      \* the process died of an unrecovered panic
    panicBy,      \* who panicked: "none", "ctor" (the caller's thread) or "watcher"
    instance,     \* var instance *Logger (0 = nil)
    slogDefault,  \* the *slog.Logger installed by slog.SetDefault
    nInst,        \* Logger values allocated by build
    Logger,       \* Logger[i]: the embedded *slog.Logger of instance i
    logFile,      \* logFile[i]: the logFile field (NoFile = nil)
    logsDict,     \* logsDict[i]
    mod,          \* mod[i]
    LoggerType,   \* LoggerType[i]
    today,        \* today[i]
    mu,           \* mu[i]: the embedded sync.RWMutex, [w: holder, r: readers]
    main,         \* the caller's thread inside init or a constructor
    wpc,          \* wpc[i]: where the watcher goroutine of instance i is
    wnew,         \* wnew[i]: the logger the watcher built at line 103
    wold,         \* wold[i]: the logger the watcher's last swap replaced
    lastRot,      \* lastRot[i]: the date of the last check that chose to rotate (-1: none)
    watchers,     \* watchers[i]: goroutines started by watcher() on i
    nsink,        \* nsink[i]: loggers built by slog.New for instance i
    opened,       \* opened[i]: file handles os.OpenFile returned for instance i
    files,        \* the files that exist on disk, as <<dir, date>>
    closed,       \* the loggers whose file handle has been closed
    returned,     \* instances a caller holds a pointer to
    inflight,     \* emits that have read their logger and not yet written
    nextRec,      \* records emitted so far
    writes        \* writes[r]: the writes done for record r, in order

instVars == <<nInst, logFile, logsDict, mod, LoggerType>>
fsVars   == <<nsink, opened, files, closed>>
emitVars == <<inflight, nextRec, writes>>
wVars    == <<wpc, wnew, wold, lastRot, watchers>>
vars == <<now, crashed, panicBy, instance, slogDefault, nInst, Logger, logFile, logsDict,
          mod, LoggerType, today, mu, main, wpc, wnew, wold, lastRot, watchers, nsink,
          opened, files, closed, returned, inflight, nextRec, writes>>

\* ------------------------------------------------------------- helpers
NilLogger == [id |-> <<0, 0>>, kind |-> "nil", dir |-> "", date |-> 0]

\* a nil *os.File
NoFile == <<"nil", 0>>

\* time.Time.Day(): the day of the month
Day(t) == (t % MonthLen) + 1

\* time.Time.Format(time.DateOnly): one text per calendar date
DateOnly(t) == t

\* Mod.Empty / Type.Empty / Path.Empty
Empty(s) == s = ""

\* openLogFile's file name: path + "<YYYY-MM-DD>.txt"
LogFileName(path, t) == <<path, DateOnly(t)>>

\* a prodHandler that ignores its path and opens under the service directory
ProdLoggerServiceDir(i, path) ==
    [id |-> <<i, nsink[i] + 1>>, kind |-> "json", dir |-> DefaultServicePath,
     date |-> DateOnly(now)]

\* slog.New(prodHandler(path)) for instance i, the file opened at date `now`
ProdLogger(i, path) ==
    [id |-> <<i, nsink[i] + 1>>, kind |-> "json", dir |-> path, date |-> DateOnly(now)]

\* slog.New(devHandler()) for instance i
DevLogger(i) ==
    [id |-> <<i, nsink[i] + 1>>, kind |-> "tint", dir |-> "", date |-> 0]

\* the destinations one Handle call of logger s writes a record to
Destinations(s) ==
    IF s.kind = "json" THEN <<<<"stdout", 0>>, <<s.dir, s.date>>>>
    ELSE <<<<"stderr", 0>>>>

\* the arguments of a call that is not in progress
NoArgs == [mod |-> "-", type |-> "-", path |-> "-"]

Idle == [fn |-> "idle", ops |-> <<>>, inst |-> 0, h |-> NilLogger, args |-> NoArgs]

Free(i) == mu[i].w = "none" /\ mu[i].r = 0

\* ---------------------------------------------------------------- Init
Init ==
    /\ now = 0
    /\ crashed = FALSE
    /\ panicBy = "none"
    /\ instance = 0
    /\ slogDefault = NilLogger
    /\ nInst = 0
    /\ Logger = [i \in Insts |-> NilLogger]
    /\ logFile = [i \in Insts |-> NoFile]
    /\ logsDict = [i \in Insts |-> ""]
    /\ mod = [i \in Insts |-> ""]
    /\ LoggerType = [i \in Insts |-> ""]
    /\ today = [i \in Insts |-> 0]
    /\ mu = [i \in Insts |-> [w |-> "none", r |-> 0]]
    /\ main = [fn |-> "start", ops |-> <<>>, inst |-> 0, h |-> NilLogger, args |-> NoArgs]
    /\ wpc = [i \in Insts |-> "off"]
    /\ wnew = [i \in Insts |-> NilLogger]
    /\ wold = [i \in Insts |-> NilLogger]
    /\ lastRot = [i \in Insts |-> -1]
    /\ watchers = [i \in Insts |-> 0]
    /\ nsink = [i \in Insts |-> 0]
    /\ opened = [i \in Insts |-> 0]
    /\ files = {}
    /\ closed = {}
    /\ returned = {}
    /\ inflight = {}
    /\ nextRec = 0
    /\ writes = [r \in 1..MaxRec |-> <<>>]

\* ------------------------------------------------------------ the clock
TickTo(d) ==
    /\ ~crashed
    /\ now < d
    /\ now' = now + 1
    /\ UNCHANGED <<crashed, panicBy, instance, slogDefault, instVars, Logger, today, mu, main,
                   wVars, fsVars, returned, emitVars>>

\* the clock of Spec
Tick == TickTo(MaxDate)

\* the clock of WatcherSpec
LiveTick == TickTo(MaxLiveDate)

\* ------------------------------------------------- build and constructors
\* build(logsDict, mod, lType): a fresh Logger with today = time.Now()
Build(i, p, m, t) ==
    /\ nInst' = i
    /\ logsDict' = [logsDict EXCEPT ![i] = p]
    /\ mod' = [mod EXCEPT ![i] = m]
    /\ LoggerType' = [LoggerType EXCEPT ![i] = t]
    /\ today' = [today EXCEPT ![i] = now]
    /\ UNCHANGED logFile

\* init with the mod == ModProd test of line 70 left out
initBodyAlwaysWatch(m) ==
    <<"selectHandler", "setLogger.Lock", "setLogger.set", "watcher", "SetDefault">>

\* the statements of init after build, in order
initBody(m) ==
    <<"selectHandler", "setLogger.Lock", "setLogger.set">>
        \o (IF m = ModProd THEN <<"watcher">> ELSE <<>>)
        \o <<"SetDefault">>

\* CreateProdLogger that installs its instance as the singleton first
CreateProdLoggerBodyPublishFirst ==
    <<"instance", "prodHandler", "setLogger.Lock", "setLogger.set", "watcher", "SetDefault">>

\* the statements of CreateProdLogger after build
CreateProdLoggerBody ==
    <<"prodHandler", "setLogger.Lock", "setLogger.set", "watcher", "instance", "SetDefault">>

\* the statements of CreateDevLogger after build
CreateDevLoggerBody ==
    <<"devHandler", "setLogger.Lock", "setLogger.set", "instance", "SetDefault">>

\* CreateRequestLogger that also installs its instance as the singleton
CreateRequestLoggerBodySingleton(m) ==
    (IF m = ModProd THEN <<"prodHandler", "watcher">> ELSE <<"devHandler">>)
        \o <<"setLogger.Lock", "setLogger.set", "instance", "return">>

\* the statements of CreateRequestLogger after build
CreateRequestLoggerBody(m) ==
    (IF m = ModProd THEN <<"prodHandler", "watcher">> ELSE <<"devHandler">>)
        \o <<"setLogger.Lock", "setLogger.set", "return">>

\* an empty value taken as it is, the default forgotten
OrDefaultForgotten(v, d) == v

\* if v.Empty() { v = d } (lines 57-65, 158-160, 178-180)
OrDefault(v, d) == IF Empty(v) THEN d ELSE v

\* init lines 53-67: environment, defaults, instance = build(...)
init(envMod, envType, envPath) ==
    /\ ~crashed
    /\ main.fn = "start"
    /\ LET m == OrDefault(envMod, DefaultMod)
           t == OrDefault(envType, DefaultType)
           p == OrDefault(envPath, DefaultServicePath)
       IN /\ Build(1, p, m, t)
          /\ instance' = 1
          /\ main' = [fn |-> "init", ops |-> initBody(m), inst |-> 1, h |-> NilLogger,
                      args |-> [mod |-> envMod, type |-> envType, path |-> envPath]]
    /\ UNCHANGED <<now, crashed, panicBy, slogDefault, Logger, mu, wVars, fsVars, returned, emitVars>>

\* CreateProdLogger lines 158-161
CreateProdLogger(path) ==
    /\ ~crashed
    /\ main.fn = "idle"
    /\ nInst < MaxInst
    /\ LET p == OrDefault(path, DefaultServicePath)
       IN /\ Build(nInst + 1, p, ModProd, DefaultType)
          /\ main' = [fn |-> "CreateProdLogger", ops |-> CreateProdLoggerBody,
                      inst |-> nInst + 1, h |-> NilLogger,
                      args |-> [NoArgs EXCEPT !.path = path]]
    /\ UNCHANGED <<now, crashed, panicBy, instance, slogDefault, Logger, mu, wVars, fsVars,
                   returned, emitVars>>

\* CreateDevLogger line 170
CreateDevLogger ==
    /\ ~crashed
    /\ main.fn = "idle"
    /\ nInst < MaxInst
    /\ Build(nInst + 1, "", ModDev, DefaultType)
    /\ main' = [fn |-> "CreateDevLogger", ops |-> CreateDevLoggerBody,
                inst |-> nInst + 1, h |-> NilLogger, args |-> NoArgs]
    /\ UNCHANGED <<now, crashed, panicBy, instance, slogDefault, Logger, mu, wVars, fsVars,
                   returned, emitVars>>

\* CreateRequestLogger lines 178-181
CreateRequestLogger(m, path) ==
    /\ ~crashed
    /\ main.fn = "idle"
    /\ nInst < MaxInst
    /\ LET p == OrDefault(path, DefaultRequestPath)
       IN /\ Build(nInst + 1, p, m, TypeRequest)
          /\ main' = [fn |-> "CreateRequestLogger", ops |-> CreateRequestLoggerBody(m),
                      inst |-> nInst + 1, h |-> NilLogger,
                      args |-> [NoArgs EXCEPT !.mod = m, !.path = path]]
    /\ UNCHANGED <<now, crashed, panicBy, instance, slogDefault, Logger, mu, wVars, fsVars,
                   returned, emitVars>>

\* the caller's thread moves past its current statement
Advance ==
    main' = IF Len(main.ops) = 1 THEN Idle ELSE [main EXCEPT !.ops = Tail(main.ops)]

At(op) == ~crashed /\ main.ops # <<>> /\ Head(main.ops) = op

\* selectHandler with the test turned round: the console handler for ModDev only
selectHandlerDevOnly(m) == IF m = ModDev THEN "devHandler" ELSE "prodHandler"

\* selectHandler lines 113-118: the production handler for ModProd only
selectHandler(m) == IF m = ModProd THEN "prodHandler" ELSE "devHandler"

\* the handler-building statement the caller's thread is at, resolved
HandlerOp ==
    IF Head(main.ops) = "selectHandler" THEN selectHandler(mod[main.inst])
    ELSE Head(main.ops)

AtHandler(op) ==
    /\ ~crashed
    /\ main.ops # <<>>
    /\ Head(main.ops) \in {"selectHandler", "prodHandler", "devHandler"}
    /\ HandlerOp = op

\* openLogFile lines 142-149 succeeding for instance i: the directory and the
\* file named after the date of this call's own time.Now() exist, one more
\* handle is open; prodHandler line 126 hands the file to the MultiWriter only
OpenLogFile(i) ==
    /\ files' = files \cup {LogFileName(logsDict[i], now)}
    /\ opened' = [opened EXCEPT ![i] = @ + 1]
    /\ nsink' = [nsink EXCEPT ![i] = @ + 1]
    /\ UNCHANGED <<logFile, closed>>

\* slog.New(prodHandler(path)) in a constructor
CtorProdHandler ==
    /\ AtHandler("prodHandler")
    /\ OpenLogFile(main.inst)
    /\ main' = [main EXCEPT !.ops = Tail(main.ops),
                            !.h = ProdLogger(main.inst, logsDict[main.inst])]
    /\ UNCHANGED <<now, crashed, panicBy, instance, slogDefault, nInst, logsDict, mod, LoggerType,
                   Logger, today, mu, wVars, returned, emitVars>>

\* prodHandler lines 122-125 in a constructor: openLogFile fails, panic(err)
CtorProdHandlerPanic ==
    /\ AtHandler("prodHandler")
    /\ crashed' = TRUE
    /\ panicBy' = "ctor"
    /\ UNCHANGED <<now, instance, slogDefault, instVars, Logger, today, mu, main,
                   wVars, fsVars, returned, emitVars>>

\* slog.New(devHandler()) in a constructor
CtorDevHandler ==
    /\ AtHandler("devHandler")
    /\ nsink' = [nsink EXCEPT ![main.inst] = @ + 1]
    /\ main' = [main EXCEPT !.ops = Tail(main.ops), !.h = DevLogger(main.inst)]
    /\ UNCHANGED <<now, crashed, panicBy, instance, slogDefault, instVars, Logger, today, mu,
                   wVars, opened, files, closed, returned, emitVars>>

\* setLogger line 89 called by a constructor: ll.Lock()
CtorSetLoggerLock ==
    /\ At("setLogger.Lock")
    /\ Free(main.inst)
    /\ mu' = [mu EXCEPT ![main.inst].w = "main"]
    /\ Advance
    /\ UNCHANGED <<now, crashed, panicBy, instance, slogDefault, instVars, Logger, today,
                   wVars, fsVars, returned, emitVars>>

\* setLogger lines 90-91 called by a constructor: ll.Logger = logger, Unlock
CtorSetLoggerSet ==
    /\ At("setLogger.set")
    /\ Logger' = [Logger EXCEPT ![main.inst] = main.h]
    /\ mu' = [mu EXCEPT ![main.inst].w = "none"]
    /\ Advance
    /\ UNCHANGED <<now, crashed, panicBy, instance, slogDefault, instVars, today,
                   wVars, fsVars, returned, emitVars>>

\* watcher() lines 95-96, 109: the goroutine is started and sleeps
CtorWatcher ==
    /\ At("watcher")
    /\ watchers' = [watchers EXCEPT ![main.inst] = @ + 1]
    /\ wpc' = [wpc EXCEPT ![main.inst] = "sleep"]
    /\ Advance
    /\ UNCHANGED <<now, crashed, panicBy, instance, slogDefault, instVars, Logger, today, mu,
                   wnew, wold, lastRot, fsVars, returned, emitVars>>

\* instance = logger (lines 165, 173); a caller may still hold the old one
CtorInstance ==
    /\ At("instance")
    /\ instance' = main.inst
    /\ returned' = returned \cup {instance}
    /\ Advance
    /\ UNCHANGED <<now, crashed, panicBy, slogDefault, instVars, Logger, today, mu,
                   wVars, fsVars, emitVars>>

\* slog.SetDefault(x.Logger) (lines 73, 166, 174): the field is read unlocked
CtorSetDefault ==
    /\ At("SetDefault")
    /\ slogDefault' = Logger[main.inst]
    /\ Advance
    /\ UNCHANGED <<now, crashed, panicBy, instance, instVars, Logger, today, mu,
                   wVars, fsVars, returned, emitVars>>

\* return logger (line 190)
CtorReturn ==
    /\ At("return")
    /\ returned' = returned \cup {main.inst}
    /\ Advance
    /\ UNCHANGED <<now, crashed, panicBy, instance, slogDefault, instVars, Logger, today, mu,
                   wVars, fsVars, emitVars>>

\* ------------------------------------------------------ rotation watcher
\* lines 98-99: the sleep is over, ll.RLock()
WatcherRLock(i) ==
    /\ ~crashed
    /\ wpc[i] = "sleep"
    /\ mu[i].w = "none"
    /\ mu' = [mu EXCEPT ![i].r = @ + 1]
    /\ wpc' = [wpc EXCEPT ![i] = "check"]
    /\ UNCHANGED <<now, crashed, panicBy, instance, slogDefault, instVars, Logger, today, main,
                   wnew, wold, lastRot, watchers, fsVars, returned, emitVars>>

\* line 100 with <= written for !=
shouldRotateLeq(i) == Day(today[i]) <= Day(now)

\* line 100: shouldRotate := ll.today.Day() != time.Now().Day()
shouldRotate(i) == Day(today[i]) # Day(now)

\* the read lock kept when the check is over
RUnlockMissing(i) == mu

\* line 101: ll.RUnlock()
RUnlock(i) == [mu EXCEPT ![i].r = @ - 1]

\* lines 100-102: the comparison, ll.RUnlock(), the branch
WatcherCheck(i) ==
    /\ ~crashed
    /\ wpc[i] = "check"
    /\ mu' = RUnlock(i)
    /\ wpc' = [wpc EXCEPT ![i] = IF shouldRotate(i) THEN "open" ELSE "sleep"]
    /\ lastRot' = [lastRot EXCEPT ![i] = IF shouldRotate(i) THEN now ELSE @]
    /\ UNCHANGED <<now, crashed, panicBy, instance, slogDefault, instVars, Logger, today, main,
                   wnew, wold, watchers, fsVars, returned, emitVars>>

\* line 103, the argument: slog.New(prodHandler(ll.logsDict))
WatcherOpen(i) ==
    /\ ~crashed
    /\ wpc[i] = "open"
    /\ OpenLogFile(i)
    /\ wnew' = [wnew EXCEPT ![i] = ProdLogger(i, logsDict[i])]
    /\ wpc' = [wpc EXCEPT ![i] = "swap"]
    /\ UNCHANGED <<now, crashed, panicBy, instance, slogDefault, nInst, logsDict, mod, LoggerType,
                   Logger, today, mu, main, wold, lastRot, watchers, returned, emitVars>>

\* a failed open that the watcher answers by going back to its sleep
WatcherOpenRetry(i) ==
    /\ ~crashed
    /\ wpc[i] = "open"
    /\ wpc' = [wpc EXCEPT ![i] = "sleep"]
    /\ panicBy' = "watcher"
    /\ UNCHANGED <<now, crashed, instance, slogDefault, instVars, Logger, today, mu, main,
                   wnew, wold, lastRot, watchers, fsVars, returned, emitVars>>

\* line 103, prodHandler lines 122-125: openLogFile fails, panic(err)
WatcherOpenPanic(i) ==
    /\ ~crashed
    /\ wpc[i] = "open"
    /\ crashed' = TRUE
    /\ panicBy' = "watcher"
    /\ UNCHANGED <<now, instance, slogDefault, instVars, Logger, today, mu, main,
                   wVars, fsVars, returned, emitVars>>

\* line 103, setLogger line 89: ll.Lock()
WatcherSetLoggerLock(i) ==
    /\ ~crashed
    /\ wpc[i] = "swap"
    /\ Free(i)
    /\ mu' = [mu EXCEPT ![i].w = "watcher"]
    /\ wpc' = [wpc EXCEPT ![i] = "swapL"]
    /\ UNCHANGED <<now, crashed, panicBy, instance, slogDefault, instVars, Logger, today, main,
                   wnew, wold, lastRot, watchers, fsVars, returned, emitVars>>

\* a rotation that also publishes the new logger as the default logger
WatcherSetLoggerSetDefault(i) ==
    /\ ~crashed
    /\ wpc[i] = "swapL"
    /\ Logger' = [Logger EXCEPT ![i] = wnew[i]]
    /\ slogDefault' = wnew[i]
    /\ wold' = [wold EXCEPT ![i] = Logger[i]]
    /\ mu' = [mu EXCEPT ![i].w = "none"]
    /\ wpc' = [wpc EXCEPT ![i] = "date"]
    /\ UNCHANGED <<now, crashed, panicBy, instance, instVars, today, main,
                   wnew, lastRot, watchers, fsVars, returned, emitVars>>

\* line 103, setLogger lines 90-91: ll.Logger = logger, Unlock
WatcherSetLoggerSet(i) ==
    /\ ~crashed
    /\ wpc[i] = "swapL"
    /\ Logger' = [Logger EXCEPT ![i] = wnew[i]]
    /\ wold' = [wold EXCEPT ![i] = Logger[i]]
    /\ mu' = [mu EXCEPT ![i].w = "none"]
    /\ wpc' = [wpc EXCEPT ![i] = "date"]
    /\ UNCHANGED <<now, crashed, panicBy, instance, slogDefault, instVars, today, main,
                   wnew, lastRot, watchers, fsVars, returned, emitVars>>

\* line 104: ll.Lock()
WatcherDateLock(i) ==
    /\ ~crashed
    /\ wpc[i] = "date"
    /\ Free(i)
    /\ mu' = [mu EXCEPT ![i].w = "watcher"]
    /\ wpc' = [wpc EXCEPT ![i] = "dateL"]
    /\ UNCHANGED <<now, crashed, panicBy, instance, slogDefault, instVars, Logger, today, main,
                   wnew, wold, lastRot, watchers, fsVars, returned, emitVars>>

\* lines 105-106: ll.today = time.Now(), ll.Unlock(), back to the sleep
WatcherDateSet(i) ==
    /\ ~crashed
    /\ wpc[i] = "dateL"
    /\ today' = [today EXCEPT ![i] = now]
    /\ mu' = [mu EXCEPT ![i].w = "none"]
    /\ wpc' = [wpc EXCEPT ![i] = "sleep"]
    /\ UNCHANGED <<now, crashed, panicBy, instance, slogDefault, instVars, Logger, main,
                   wnew, wold, lastRot, watchers, fsVars, returned, emitVars>>

\* ---------------------------------------------------------------- emits
\* The emit methods (Info, Error, ...) are promoted from the embedded
\* *slog.Logger: a call loads the field ll.Logger, one machine word, without
\* taking the RWMutex, and then runs Handle on the logger it loaded.  The load
\* returns the pointer stored before or after a concurrent ll.Logger = logger.

\* the logger an emit through instance i runs on
EmitLoad(i) == Logger[i]

EmitBegin(via, s) ==
    /\ ~crashed
    /\ nextRec < MaxRec
    /\ s # NilLogger
    /\ nextRec' = nextRec + 1
    /\ inflight' = inflight \cup {[rec |-> nextRec + 1, via |-> via, sink |-> s]}
    /\ UNCHANGED <<now, crashed, panicBy, instance, slogDefault, instVars, Logger, today, mu, main,
                   wVars, fsVars, returned, writes>>

\* ll.Info(...) on an instance a constructor returned, or got from Get() earlier
EmitInstance(i) ==
    /\ i \in returned
    /\ EmitBegin("instance", EmitLoad(i))

\* Get().Info(...), lines 47-49; callers run once init has returned
EmitGet ==
    /\ main.fn \notin {"start", "init"}
    /\ EmitBegin("Get", EmitLoad(instance))

\* slog.Info(...): the process-wide default logger
EmitDefault ==
    /\ main.fn \notin {"start", "init"}
    /\ EmitBegin("default", slogDefault)

\* a Handle that looks the instance's logger up again for each destination
HandleWritesReload(s) ==
    [k \in 1..Len(Destinations(s)) |->
        IF k = 1 THEN [sink |-> s, dest |-> Destinations(s)[k]]
        ELSE [sink |-> Logger[s.id[1]],
              dest |-> Destinations(Logger[s.id[1]])[Len(Destinations(Logger[s.id[1]]))]]]

\* Handle of the loaded logger: the record goes to each destination of that
\* logger's handler (prodHandler line 126: io.MultiWriter(os.Stdout, file);
\* devHandler line 134: os.Stderr)
HandleWrites(s) ==
    [k \in 1..Len(Destinations(s)) |-> [sink |-> s, dest |-> Destinations(s)[k]]]

EmitWrite(e) ==
    /\ ~crashed
    /\ e \in inflight
    /\ inflight' = inflight \ {e}
    /\ writes' = [writes EXCEPT ![e.rec] = @ \o HandleWrites(e.sink)]
    /\ UNCHANGED <<now, crashed, panicBy, instance, slogDefault, instVars, Logger, today, mu, main,
                   wVars, fsVars, returned, nextRec>>

\* ----------------------------------------------------- the Go runtime
\* the only references the runtime follows
ReachableFromInstances(s) == \E j \in Insts : Logger[j] = s

\* Logger s is referenced: by an instance's Logger field, by the default
\* logger slog.SetDefault captured, by a constructor or setLogger call that
\* has built it and not stored it yet, or by an emit that has loaded it.
Reachable(s) ==
    \/ \E j \in Insts : Logger[j] = s
    \/ slogDefault = s
    \/ main.h = s
    \/ \E j \in Insts : wpc[j] \in {"swap", "swapL"} /\ wnew[j] = s
    \/ \E e \in inflight : e.sink = s

\* The program calls Close nowhere.  The *os.File that os.OpenFile returned
\* (line 145) carries the finalizer package os sets: once the logger the
\* watcher replaced is referenced by nothing, the garbage collector may close
\* its file, at any time or never.
Finalize(i) ==
    /\ ~crashed
    /\ wold[i].kind = "json"
    /\ wold[i] \notin closed
    /\ ~Reachable(wold[i])
    /\ closed' = closed \cup {wold[i]}
    /\ UNCHANGED <<now, crashed, panicBy, instance, slogDefault, instVars, Logger, today, mu, main,
                   wVars, nsink, opened, files, returned, emitVars>>

\* ------------------------------------------------------------------ Next
Next ==
    \/ Tick
    \/ \E m \in ModInputs, t \in TypeInputs, p \in PathInputs : init(m, t, p)
    \/ \E p \in PathInputs : CreateProdLogger(p)
    \/ CreateDevLogger
    \/ \E m \in ModInputs, p \in PathInputs : CreateRequestLogger(m, p)
    \/ CtorProdHandler
    \/ CtorProdHandlerPanic
    \/ CtorDevHandler
    \/ CtorSetLoggerLock
    \/ CtorSetLoggerSet
    \/ CtorWatcher
    \/ CtorInstance
    \/ CtorSetDefault
    \/ CtorReturn
    \/ \E i \in Insts : WatcherRLock(i)
    \/ \E i \in Insts : WatcherCheck(i)
    \/ \E i \in Insts : WatcherOpen(i)
    \/ \E i \in Insts : WatcherOpenPanic(i)
    \/ \E i \in Insts : WatcherSetLoggerLock(i)
    \/ \E i \in Insts : WatcherSetLoggerSet(i)
    \/ \E i \in Insts : WatcherDateLock(i)
    \/ \E i \in Insts : WatcherDateSet(i)
    \/ \E i \in Insts : EmitInstance(i)
    \/ EmitGet
    \/ EmitDefault
    \/ \E e \in inflight : EmitWrite(e)
    \/ \E i \in Insts : Finalize(i)

Spec == Init /\ [][Next]_vars

\* ------------------------------------------------- progress of the watcher
\* The program with every openLogFile succeeding and nobody emitting (an emit
\* takes no lock and writes nothing the watcher reads), over MaxLiveDate + 1
\* calendar dates, fewer than a month.

\* one step of the thread that runs the constructors
MainStep ==
    \/ CtorProdHandler
    \/ CtorDevHandler
    \/ CtorSetLoggerLock
    \/ CtorSetLoggerSet
    \/ CtorWatcher
    \/ CtorInstance
    \/ CtorSetDefault
    \/ CtorReturn

\* one step of the watcher goroutine of instance i
WatcherStep(i) ==
    \/ WatcherRLock(i)
    \/ WatcherCheck(i)
    \/ WatcherOpen(i)
    \/ WatcherSetLoggerLock(i)
    \/ WatcherSetLoggerSet(i)
    \/ WatcherDateLock(i)
    \/ WatcherDateSet(i)

LiveNext ==
    \/ LiveTick
    \/ \E m \in ModInputs, t \in TypeInputs, p \in PathInputs : init(m, t, p)
    \/ \E p \in PathInputs : CreateProdLogger(p)
    \/ CreateDevLogger
    \/ \E m \in ModInputs, p \in PathInputs : CreateRequestLogger(m, p)
    \/ MainStep
    \/ \E i \in Insts : WatcherStep(i)

\* The Go scheduler runs every runnable goroutine, time.Sleep returns, and a
\* goroutine blocked in Lock gets the lock once it is free and stays free.
WatcherSpec ==
    /\ Init
    /\ [][LiveNext]_vars
    /\ WF_vars(MainStep)
    /\ \A i \in Insts : WF_vars(WatcherStep(i))

\* ------------------------------------------------------------ properties
\* construction of instance i has returned to its caller
Completed(i) == i <= nInst /\ main.inst # i

\* the instance on whose behalf logger s was built
Owner(s) == s.id[1]

\* the file logger s appends to
FileOf(s) == LogFileName(s.dir, s.date)

\* the records that have been written to destination f
FileRecords(f) ==
    {r \in 1..MaxRec : \E k \in 1..Len(writes[r]) : writes[r][k].dest = f}

\* the watcher of i has replaced the logger and not yet the date
RotationHalfDone(i) == wpc[i] \in {"date", "dateL"}

\* C1: every emit that starts, on any path, runs on the logger that is then
\* the active one of the instance it belongs to (the one the last completed
\* swap installed), never on a logger a rotation has replaced.
C1_EmitsStartOnActiveSink ==
    [][\A e \in inflight' : e \notin inflight => e.sink = Logger[Owner(e.sink)]]_vars

\* C2: every record that was emitted is either still in flight, with nothing
\* written, or has been written exactly once to each destination of one single
\* logger, whose file exists; no record is split over loggers or lost.
C2_RecordThroughOneSinkGeneration ==
    \A r \in 1..MaxRec :
        LET fl == {e \in inflight : e.rec = r}
            w  == writes[r]
        IN IF r > nextRec THEN fl = {} /\ w = <<>>
           ELSE \/ Cardinality(fl) = 1 /\ w = <<>>
                \/ /\ fl = {}
                   /\ w # <<>>
                   /\ \A k \in 1..Len(w) : w[k].sink = w[1].sink
                   /\ \A k, l \in 1..Len(w) : w[k].dest = w[l].dest => k = l
                   /\ {w[k].dest : k \in 1..Len(w)} =
                          IF w[1].sink.kind = "json"
                          THEN {<<"stdout", 0>>, FileOf(w[1].sink)}
                          ELSE {<<"stderr", 0>>}
                   /\ w[1].sink.kind = "json" => FileOf(w[1].sink) \in files

\* C2 witness: two records were written through two different loggers of the
\* same instance, one installed before a rotation and one by it.
C2_Witness ==
    /\ writes[1] # <<>> /\ writes[2] # <<>>
    /\ Owner(writes[1][1].sink) = Owner(writes[2][1].sink)
    /\ writes[1][1].sink # writes[2][1].sink
    /\ wold[Owner(writes[1][1].sink)] \in {writes[1][1].sink, writes[2][1].sink}

\* C3: while the watcher holds the exclusive lock to replace the logger of an
\* instance, no emit on that instance is in flight.
C3_NoEmitInFlightDuringSwap ==
    \A i \in Insts :
        wpc[i] = "swapL" => ~\E e \in inflight : Owner(e.sink) = i

\* C4: from the replacement of the logger to the replacement of the date the
\* watcher holds the exclusive lock, so nobody can take the lock in between.
C4_SinkAndDateInOneCriticalSection ==
    \A i \in Insts : RotationHalfDone(i) => mu[i].w = "watcher"

\* C5: for a production instance whose construction has returned and whose
\* watcher is not rotating, the day of the stored date is the day in the name
\* of the file the active logger writes to.
C5_DateIsDayOfActiveFile ==
    \A i \in Insts :
        (Completed(i) /\ mod[i] = ModProd /\ wpc[i] \in {"sleep", "check"})
            => Day(today[i]) = Day(Logger[i].date)

\* C6: a check sends the watcher to open a file only if the day of the stored
\* date differs from the current day, and never on a date on which an earlier
\* check of the same instance already chose to rotate.
C6_RotateOnlyOnDayChangeOncePerDay ==
    [][\A i \in Insts :
          (wpc[i] = "check" /\ wpc'[i] = "open")
              => (Day(today[i]) # Day(now) /\ lastRot[i] # now)]_vars

\* C6 witness: the watcher is at a check on the date of its last rotation,
\* the rotation is complete, and the days agree.
C6_Witness ==
    \E i \in Insts :
        /\ wpc[i] = "check"
        /\ lastRot[i] = now
        /\ wold[i] # NilLogger
        /\ Day(today[i]) = Day(now)

\* C7: once a rotation has completed, the file of the logger it replaced gets
\* no further record.
C7_OldFileKeepsItsRecords ==
    [][\A i \in Insts :
          (wold[i] # NilLogger /\ ~RotationHalfDone(i) /\ FileOf(wold[i]) # FileOf(Logger[i]))
              => FileRecords(FileOf(wold[i]))' = FileRecords(FileOf(wold[i]))]_vars

\* C8: an instance never has more than one watcher, has none unless its mode
\* is production, and once its construction has returned a production
\* instance has exactly one, which is running.
C8_OneWatcherIffProduction ==
    \A i \in Insts :
        /\ watchers[i] <= 1
        /\ mod[i] # ModProd => watchers[i] = 0 /\ wpc[i] = "off"
        /\ (Completed(i) /\ mod[i] = ModProd) => watchers[i] = 1 /\ wpc[i] # "off"

\* C8 witness: a production instance and a non-production instance have both
\* been constructed.
C8_Witness ==
    /\ main.fn = "idle"
    /\ \E i, j \in 1..nInst :
          /\ mod[i] = ModProd /\ watchers[i] = 1
          /\ mod[j] # ModProd /\ watchers[j] = 0

\* C9: when CreateProdLogger or CreateDevLogger returns, the singleton is the
\* instance it built; no step of CreateRequestLogger changes the singleton or
\* the default logger, and the instance it returns is a new one.
C9_ConstructorsAndSingleton ==
    [][/\ (main.fn \in {"CreateProdLogger", "CreateDevLogger"} /\ main'.fn = "idle")
            => (instance' = main.inst /\ main.inst = nInst)
       /\ (main.fn = "CreateRequestLogger" \/ main'.fn = "CreateRequestLogger")
            => (instance' = instance /\ slogDefault' = slogDefault)
       /\ (main.fn = "CreateRequestLogger" /\ main'.fn = "idle")
            => (main.inst \in returned' /\ main.inst \notin returned /\ main.inst # instance')]_vars

\* C9 witness: CreateRequestLogger has returned a second instance and the
\* singleton is still the one init built.
C9_Witness ==
    /\ main.fn = "idle"
    /\ nInst = 2
    /\ LoggerType[2] = TypeRequest
    /\ 2 \in returned
    /\ instance = 1
    /\ Owner(slogDefault) = 1

\* C10: an instance whose construction has returned has a logger, and in
\* production mode its logFile field is the open file the logger writes to.
C10_SinkAndFileHandle ==
    \A i \in Insts :
        Completed(i) =>
            /\ Logger[i] # NilLogger
            /\ mod[i] = ModProd => logFile[i] = FileOf(Logger[i])

\* C11 as claimed: on every path that accepts it, an empty mode, category or
\* path is stored as development, service and ./logs/service_logs/.
C11_EmptyYieldsDocumentedDefaults ==
    main.fn \in {"init", "CreateProdLogger", "CreateRequestLogger"} =>
        /\ Empty(main.args.mod) => mod[main.inst] = DefaultMod
        /\ Empty(main.args.type) => LoggerType[main.inst] = DefaultType
        /\ Empty(main.args.path) => logsDict[main.inst] = DefaultServicePath

\* C11 amended: init stores development, service and ./logs/service_logs/ for
\* an empty value and any other value as given; CreateProdLogger stores
\* ./logs/service_logs/ for an empty path; CreateRequestLogger stores
\* ./logs/request_logs/ for an empty path and the mode exactly as given, an
\* empty one included.
C11_DefaultsPerConstructor ==
    LET i == main.inst
        a == main.args
    IN /\ main.fn = "init" =>
            /\ mod[i] = (IF a.mod = "" THEN ModDev ELSE a.mod)
            /\ LoggerType[i] = (IF a.type = "" THEN TypeService ELSE a.type)
            /\ logsDict[i] = (IF a.path = "" THEN DefaultServicePath ELSE a.path)
       /\ main.fn = "CreateProdLogger" =>
            logsDict[i] = (IF a.path = "" THEN DefaultServicePath ELSE a.path)
       /\ main.fn = "CreateRequestLogger" =>
            /\ mod[i] = a.mod
            /\ logsDict[i] = (IF a.path = "" THEN DefaultRequestPath ELSE a.path)

\* C11 witness: CreateRequestLogger was called with an empty mode and an empty
\* path and has installed the logger of the instance it built.
C11_Witness ==
    /\ main.fn = "CreateRequestLogger"
    /\ main.args.mod = "" /\ main.args.path = ""
    /\ Logger[main.inst] # NilLogger
    /\ logsDict[main.inst] = DefaultRequestPath

\* C12: an instance whose mode is not production never has a file opened or a
\* watcher started for it, its logger is the console one once installed, its
\* constructor does not panic, and a process with no production instance has
\* created no file.
C12_NonProductionGetsConsoleSink ==
    /\ \A i \in 1..nInst :
          mod[i] # ModProd =>
              /\ opened[i] = 0
              /\ watchers[i] = 0
              /\ Logger[i].kind \in {"nil", "tint"}
              /\ Completed(i) => Logger[i].kind = "tint"
              /\ main.inst = i => panicBy # "ctor"
    /\ (\A i \in 1..nInst : mod[i] # ModProd) => (files = {} /\ ~crashed)

\* C12 witness: init built an instance from an unrecognized mode,
\* CreateRequestLogger one from an empty mode, and a record went to the
\* console through one of them.
C12_Witness ==
    /\ main.fn = "idle"
    /\ nInst = 2
    /\ mod[1] = "stage" /\ mod[2] = ""
    /\ \E r \in 1..MaxRec : writes[r] # <<>> /\ writes[r][1].dest = <<"stderr", 0>>

\* C13 as claimed: when a constructor panics on a failed open, the instance
\* under construction has no logger and no watcher, and the singleton does not
\* refer to an instance without a logger.
C13_FailedOpenLeavesNoBrokenSingleton ==
    panicBy = "ctor" =>
        /\ Logger[main.inst] = NilLogger
        /\ watchers[main.inst] = 0
        /\ instance # 0 => Logger[instance] # NilLogger

\* C13 amended: when a constructor panics on a failed open, the instance
\* under construction has no logger and no watcher and is not the default
\* logger's; in CreateProdLogger and CreateRequestLogger the singleton is
\* still the earlier instance, which has a logger; in init the singleton is
\* already the instance without a logger, and no caller has run.
C13_FailedOpenAbortsConstruction ==
    panicBy = "ctor" =>
        /\ crashed
        /\ Logger[main.inst] = NilLogger
        /\ watchers[main.inst] = 0 /\ wpc[main.inst] = "off"
        /\ Owner(slogDefault) # main.inst
        /\ main.fn # "init" =>
              (instance # main.inst /\ Logger[instance] # NilLogger)
        /\ main.fn = "init" =>
              (instance = main.inst /\ returned = {} /\ nextRec = 0)

\* C13 witness: CreateProdLogger panicked while the singleton init built is
\* in place with its logger.
C13_Witness ==
    /\ panicBy = "ctor"
    /\ main.fn = "CreateProdLogger"
    /\ instance = 1
    /\ Logger[1] # NilLogger

\* C14 as claimed: the active loggers of two distinct production instances
\* never write to the same file.
C14_InstancesNeverShareAFile ==
    \A i, j \in 1..nInst :
        (i # j /\ Logger[i].kind = "json" /\ Logger[j].kind = "json")
            => FileOf(Logger[i]) # FileOf(Logger[j])

\* C14 amended: two distinct instances never hold the same logger (each was
\* built, with its own file handle, for the instance that holds it), and the
\* files of two production instances differ whenever their log paths differ;
\* with the same path they name the same file exactly when opened on the same
\* date.
C14_OwnSinkAndFilePerPath ==
    \A i, j \in 1..nInst :
        /\ Logger[i] # NilLogger => Owner(Logger[i]) = i
        /\ (i # j /\ Logger[i].kind = "json" /\ Logger[j].kind = "json") =>
              /\ Logger[i].id # Logger[j].id
              /\ logsDict[i] # logsDict[j] => FileOf(Logger[i]) # FileOf(Logger[j])
              /\ logsDict[i] = logsDict[j] =>
                    (FileOf(Logger[i]) = FileOf(Logger[j]) <=> Logger[i].date = Logger[j].date)

\* C14 witness: the singleton and a returned request logger, both production,
\* have different paths and different files, each with a record in it.
C14_Witness ==
    /\ main.fn = "idle"
    /\ nInst = 2
    /\ Logger[1].kind = "json" /\ Logger[2].kind = "json"
    /\ logsDict[1] # logsDict[2]
    /\ FileRecords(FileOf(Logger[1])) # {}
    /\ FileRecords(FileOf(Logger[2])) # {}

\* C15: when a constructor's setLogger stores the initial logger, the instance
\* has no logger yet: it never replaces one the watcher has rotated in.
C15_InitialSinkOverwritesNothing ==
    [][(At("setLogger.set") /\ main' # main) => Logger[main.inst] = NilLogger]_vars

\* C16: the watcher holds the read lock only during its check and the write
\* lock only while it stores the logger or the date; while it sleeps, opens
\* the new file or waits for a lock it holds neither.
C16_WatcherHoldsNoLockWhileOpening ==
    \A i \in Insts :
        /\ mu[i].w = "watcher" <=> wpc[i] \in {"swapL", "dateL"}
        /\ mu[i].r > 0 <=> wpc[i] = "check"
        /\ wpc[i] \in {"sleep", "open", "swap"} => (mu[i].w # "watcher" /\ mu[i].r = 0)

\* C16 witness: the watcher has opened the new file and built the logger, and
\* has not taken the lock yet.
C16_Witness ==
    \E i \in Insts :
        /\ wpc[i] = "swap"
        /\ wnew[i].kind = "json"
        /\ wnew[i] # Logger[i]
        /\ FileOf(wnew[i]) \in files
        /\ Free(i)

\* C17: under WatcherSpec, whenever instance i has a watcher and the calendar
\* day differs from the day of its stored date, the watcher later is back at
\* its sleep having opened and installed a logger on the file of the then
\* current date and having stored that date.
C17_DayChangeLeadsToRotation ==
    \A i \in Insts :
        (wpc[i] # "off" /\ Day(now) # Day(today[i]))
            ~> (/\ wpc[i] = "sleep"
                /\ wnew[i].kind = "json"
                /\ wnew[i].date = DateOnly(now)
                /\ today[i] = now)

\* rotations the watcher of i has carried out: it numbers its loggers from 2
Rotations(i) == IF wnew[i].kind = "nil" THEN 0 ELSE wnew[i].id[2] - 1

\* the file handles obtained for i that are open
OpenHandles(i) == opened[i] - Cardinality({s \in closed : Owner(s) = i})

C19_RotationTouchesOwnSinkAndDateOnly ==
    [][\A i \in Insts :
        (wpc[i] # "off" /\ wpc'[i] # wpc[i]) =>
            /\ instVars' = instVars
            /\ instance' = instance
            /\ slogDefault' = slogDefault
            /\ \A j \in Insts \ {i} :
                /\ Logger'[j] = Logger[j]
                /\ today'[j] = today[j]
                /\ mu'[j] = mu[j]
                /\ wpc'[j] = wpc[j]]_vars

\* C19 witness: the watcher of one instance has rotated while a second
\* instance, the singleton slot and the default logger exist.
C19_Witness ==
    \E i \in Insts, j \in Insts :
        /\ i # j
        /\ wpc[i] = "sleep"
        /\ Rotations(i) = 1
        /\ Logger[i] = wnew[i]
        /\ today[i] = now
        /\ now = 1
        /\ Logger[j] # NilLogger
        /\ Completed(j)
        /\ instance \in Insts
        /\ slogDefault # NilLogger

\* C20: from its check to a failed open the watcher of i stores neither a
\* logger nor a date and takes no write lock; when the open has failed the
\* process is dead with that watcher where it failed, holding no lock, the
\* stored date still the one the check found out of date; and a dead process
\* takes no step, so no check follows.
C20_FailedRotationReplacesNothing ==
    /\ [][\A i \in Insts :
            (/\ wpc[i] \in {"check", "open"}
             /\ wpc'[i] # wpc[i] \/ (panicBy' = "watcher" /\ panicBy # "watcher")) =>
                /\ Logger'[i] = Logger[i]
                /\ today'[i] = today[i]
                /\ mu'[i].w # "watcher"]_vars
    /\ [](panicBy = "watcher" =>
            /\ crashed
            /\ \E i \in Insts :
                /\ wpc[i] = "open"
                /\ mu[i].w # "watcher"
                /\ mu[i].r = 0
                /\ lastRot[i] \in 0..now
                /\ Day(today[i]) # Day(lastRot[i]))
    /\ [][~crashed]_vars

\* C20 witness: the open of a rotation has failed on an instance that has its
\* constructor's logger and date.
C20_Witness ==
    /\ panicBy = "watcher"
    /\ crashed
    /\ \E i \in Insts :
        /\ wpc[i] = "open"
        /\ Logger[i].kind = "json"
        /\ Logger[i].date = 0
        /\ today[i] = 0
        /\ now = 1
        /\ Free(i)

====
